---- MODULE Spec2Model ----
(***************************************************************************)
(* Tile storage of one sprite layer (chunk/layer.rs) and the flattening of *)
(* its tiles into renderer attributes (chunk/raw_tile.rs).                 *)
(*                                                                         *)
(* A layer is a LayerKindInner: either a DenseLayer (a Vec of tiles and a  *)
(* tile_count) or a SparseLayer (a HashMap from cell index to tile).       *)
(* Every method of the Layer trait is one action.  The variable `last`     *)
(* records the call that produced the current state together with what it  *)
(* returned; `prev` records whether the call before it was a set_tile, and   *)
(* at which index.                                                         *)
(*                                                                         *)
(* Cell indices are 0-based as in the source; TLA+ sequences are 1-based,  *)
(* so cell i of a Vec is element i + 1 of the sequence that models it.     *)
(***************************************************************************)
EXTENDS Integers, Sequences, FiniteSets, TLC

VARIABLES kind, dense_tiles, tile_count, sparse_tiles, last, prev

vars == <<kind, dense_tiles, tile_count, sparse_tiles, last, prev>>

----------------------------------------------------------------------------
(* Bounds of the model.                                                    *)

\* Largest length of the Vec a DenseLayer is constructed with.
MaxLen == 2

\* Largest value tile_count is let to reach (it is a usize in the source).
MaxCount == 2

\* Largest in-range cell index used as a key of the sparse map.
MaxKey == 1

\* Largest width and height of a Dimension3 passed to tiles_to_attributes.
MaxSide == 2

----------------------------------------------------------------------------
(* Tiles: RawTile { index, color }, color = <<r, g, b, a>>.                *)

\* Number of mantissa bits (with the implicit one) of an f32.
F32Precision == 24

\* A sprite index that an f32 cannot hold exactly: 2^24 + 1.
BigIndex == 16777216 + 1

WHITE == <<1, 1, 1, 1>>

RED == <<1, 0, 0, 1>>

RawTile(index, color) == [index |-> index, color |-> color]

\* impl Default for RawTile
DefaultTile == RawTile(0, WHITE)

get_color(tile) == tile.color

is_hidden(tile) == tile.color[4] = 0

\* Mutant of hide: the whole colour is zeroed, not the alpha alone.
hide_ZeroesColor(tile) == [tile EXCEPT !.color = <<0, 0, 0, 0>>]

hide(tile) == [tile EXCEPT !.color[4] = 0]

get_index(tile) == tile.index

\* The tiles callers pass in: the default tile, a visible tile whose sprite
\* index is not representable in f32, and a tile that is already hidden but
\* carries a sprite index and colour channels.
VisibleTiles == {DefaultTile, RawTile(BigIndex, RED)}

HiddenTiles == {RawTile(7, <<1, 0, 0, 0>>)}

InputTiles == VisibleTiles \cup HiddenTiles

----------------------------------------------------------------------------
(* Option<T>:  None is the empty sequence, Some(t) the sequence <<t>>.      *)

None == <<>>

Some(t) == <<t>>

----------------------------------------------------------------------------
(* Placeholders for the arguments a call does not take and the result it   *)
(* does not return, so that every field of `last` keeps one type.          *)

NoIndex == 0 - 1

NoTile == [index |-> NoIndex, color |-> <<0, 0, 0, 0>>]

NoDimension == <<NoIndex, NoIndex>>

\* The result of a call: an Option<T> (get_tile, get_tile_mut), a Vec<usize>
\* (get_tile_indices) or a pair of buffers (tiles_to_attributes).
NoRet == [tile |-> None, indices |-> <<>>, attributes |-> <<<<>>, <<>>>>]

RetTile(option) == [NoRet EXCEPT !.tile = option]

RetIndices(indices) == [NoRet EXCEPT !.indices = indices]

RetAttributes(attributes) == [NoRet EXCEPT !.attributes = attributes]

----------------------------------------------------------------------------
(* `usize as f32`: the nearest f32, ties to the even mantissa.  Values up   *)
(* to 2^24 are exact; above that the unit in the last place is a power of  *)
(* two and the value is rounded to a multiple of it.                       *)

RECURSIVE Pow2(_)
Pow2(n) == IF n = 0 THEN 1 ELSE 2 * Pow2(n - 1)

\* The unit in the last place of the f32 nearest to n: the least power of
\* two u with n \div u < 2^24.
RECURSIVE Ulp(_, _)
Ulp(n, u) == IF n \div u < Pow2(F32Precision) THEN u ELSE Ulp(n, 2 * u)

ToF32(n) ==
    LET u == Ulp(n, 1)
        q == n \div u
        r == n % u
    IN  IF 2 * r < u THEN q * u
        ELSE IF 2 * r > u THEN (q + 1) * u
        ELSE IF q % 2 = 0 THEN q * u
        ELSE (q + 1) * u

\* `(*tile.get_color()).into()`: the four channels as [f32; 4].
ColorInto(color) == <<color[1], color[2], color[3], color[4]>>

----------------------------------------------------------------------------
(* Attribute flattening (raw_tile.rs).  A result is the pair               *)
(* <<tile_indexes, tile_colors>>.                                          *)

\* [x; 4]
Quad(x) == <<x, x, x, x>>

\* Mutant of dense_tiles_to_attributes: hidden tiles are skipped.
RECURSIVE dense_tiles_to_attributes_SkipHidden(_)
dense_tiles_to_attributes_SkipHidden(tiles) ==
    IF tiles = <<>> THEN <<<<>>, <<>>>>
    ELSE LET tile == Head(tiles)
             rest == dense_tiles_to_attributes_SkipHidden(Tail(tiles))
         IN  IF is_hidden(tile) THEN rest
             ELSE <<Quad(ToF32(get_index(tile))) \o rest[1],
                    Quad(ColorInto(get_color(tile))) \o rest[2]>>

\* The loop of dense_tiles_to_attributes: each tile, in storage order,
\* extends both vectors by four copies of its index and of its colour.
RECURSIVE dense_tiles_to_attributes(_)
dense_tiles_to_attributes(tiles) ==
    IF tiles = <<>> THEN <<<<>>, <<>>>>
    ELSE LET tile == Head(tiles)
             rest == dense_tiles_to_attributes(Tail(tiles))
         IN  <<Quad(ToF32(get_index(tile))) \o rest[1],
               Quad(ColorInto(get_color(tile))) \o rest[2]>>

\* vec![x; n]
Filled(x, n) == [j \in 1..n |-> x]

\* `if let Some(slot) = buf.get_mut(pos) { *slot = x }`: a write that is
\* skipped when pos is not below the length of the buffer.
WriteSlot(buf, pos, x) ==
    IF pos < Len(buf) THEN [buf EXCEPT ![pos + 1] = x] ELSE buf

\* The width of usize, here that of a 32-bit target (wasm32, i686); on a
\* 64-bit target the same arithmetic applies with 64 in its place.
UsizeBits == 32

\* The least index for which `index * 4` does not fit usize: 2^(UsizeBits-2).
UsizeQuarter == Pow2(UsizeBits - 2)

\* `index * 4 + i` with i < 4 overflows usize exactly when index * 4 does.
Overflows(index) == index >= UsizeQuarter

\* `index * 4 + i` as a build without overflow checks computes it: modulo
\* 2^UsizeBits, which is (index mod 2^(UsizeBits-2)) * 4 + i for i < 4.
WrappingSlot(index, i) == (index % UsizeQuarter) * 4 + i

\* The body of `for i in 0..4` for one stored (index, tile), from slot i on,
\* when `index * 4 + i` does not panic.
RECURSIVE WriteTile(_, _, _, _)
WriteTile(bufs, index, tile, i) ==
    IF i = 4 THEN bufs
    ELSE WriteTile(
             <<WriteSlot(bufs[1], WrappingSlot(index, i), ToF32(get_index(tile))),
               WriteSlot(bufs[2], WrappingSlot(index, i),
                         ColorInto(get_color(tile)))>>,
             index, tile, i + 1)

\* The loop `for (index, tile) in tiles.iter()`, visiting the keys in the
\* order the HashMap yields them.
RECURSIVE WriteTiles(_, _, _)
WriteTiles(bufs, tiles, order) ==
    IF order = <<>> THEN bufs
    ELSE WriteTiles(WriteTile(bufs, Head(order), tiles[Head(order)], 0),
                    tiles, Tail(order))

\* Mutant of sparse_tiles_to_attributes: the buffers are sized by the number
\* of stored tiles instead of by the area of the grid.
sparse_tiles_to_attributes_SizedByTiles(dimension, tiles, order) ==
    LET n == Cardinality(DOMAIN tiles)
    IN  WriteTiles(<<Filled(0, n * 4), Filled(<<0, 0, 0, 0>>, n * 4)>>,
                   tiles, order)

\* Mutant of sparse_tiles_to_attributes: three slots per cell are allocated.
sparse_tiles_to_attributes_ThreePerCell(dimension, tiles, order) ==
    LET area == dimension[1] * dimension[2]
    IN  WriteTiles(<<Filled(0, area * 3), Filled(<<0, 0, 0, 0>>, area * 3)>>,
                   tiles, order)

\* The buffers sparse_tiles_to_attributes returns when no `index * 4 + i`
\* panics; order is the iteration order of the map.
sparse_tiles_to_attributes(dimension, tiles, order) ==
    LET area == dimension[1] * dimension[2]
    IN  WriteTiles(<<Filled(0, area * 4), Filled(<<0, 0, 0, 0>>, area * 4)>>,
                   tiles, order)

----------------------------------------------------------------------------
(* The calls.  Call(...) is the record kept in `last`; Brief(c) is what    *)
(* `prev` keeps of a call: for a set_tile its name and index, for any      *)
(* other call that it was another call.                                    *)

Call(op, index, tile, dimension, ret, log) ==
    [op |-> op, index |-> index, tile |-> tile, dimension |-> dimension,
     ret |-> ret, log |-> log]

Brief(c) ==
    IF c.op = "set_tile" THEN [op |-> c.op, index |-> c.index]
    ELSE [op |-> "other", index |-> NoIndex]

\* Cell indices tried on a Vec: every index in bounds and one past the end.
DenseIndices == 0..Len(dense_tiles)

\* A key whose `index * 4` does not fit usize; modulo 2^UsizeBits its slots
\* are those of cell 0.
BigKey == UsizeQuarter

\* Cell indices used as keys of the sparse map: the first cell, a later
\* cell and a key that overflows.
Keys == {0, MaxKey, BigKey}

\* The Dimension3 values passed in, as <<width, height>>: the empty grid and
\* the grids with 1 <= width <= height <= MaxSide (the area is symmetric).
Dimensions ==
    {<<0, 0>>} \cup {d \in (1..MaxSide) \X (1..MaxSide) : d[1] <= d[2]}

\* Vec<T> of length at most n over the tiles S.
Vecs(S, n) == UNION {[1..m -> S] : m \in 0..n}

\* HashMap<usize, T> over the keys K and the tiles S.
Maps(K, S) == UNION {[D -> S] : D \in SUBSET K}

EmptyMap == [k \in {} |-> NoTile]

\* The orders in which a HashMap may iterate over the keys K.
RECURSIVE Orders(_)
Orders(K) ==
    IF K = {} THEN {<<>>}
    ELSE UNION {{<<k>> \o o : o \in Orders(K \ {k})} : k \in K}

----------------------------------------------------------------------------
(* Construction.                                                           *)

\* DenseLayer::new(tiles): the tiles as given, tile_count 0.
DenseLayer_new(tiles) ==
    /\ kind = "Dense"
    /\ dense_tiles = tiles
    /\ tile_count = 0
    /\ sparse_tiles = EmptyMap

\* SparseLayer::new(tiles)
SparseLayer_new(tiles) ==
    /\ kind = "Sparse"
    /\ sparse_tiles = tiles
    /\ dense_tiles = <<>>
    /\ tile_count = 0

Init ==
    /\ \/ \E tiles \in Vecs(InputTiles, MaxLen) : DenseLayer_new(tiles)
       \/ \E tiles \in Maps(Keys, InputTiles) : SparseLayer_new(tiles)
    /\ last = Call("new", NoIndex, NoTile, NoDimension, NoRet, "none")
    /\ prev = Brief(last)

\* What every call does to the history.
Record(c) ==
    /\ last' = c
    /\ prev' = Brief(last)

----------------------------------------------------------------------------
(* impl Layer for DenseLayer                                               *)

\* Mutant of DenseLayer_set_tile: the count is incremented before the bounds
\* check, so an out-of-bounds call changes tile_count.
DenseLayer_set_tile_CountsFirst(index, tile) ==
    /\ kind = "Dense"
    /\ tile_count < MaxCount
    /\ tile_count' = tile_count + 1
    /\ IF index < Len(dense_tiles)
       THEN /\ dense_tiles' = [dense_tiles EXCEPT ![index + 1] = tile]
            /\ Record(Call("set_tile", index, tile, NoDimension, NoRet, "none"))
       ELSE /\ dense_tiles' = dense_tiles
            /\ Record(Call("set_tile", index, tile, NoDimension, NoRet, "warn"))
    /\ UNCHANGED <<kind, sparse_tiles>>

\* Mutant of DenseLayer_set_tile: the count is incremented only when the
\* tile that is overwritten was hidden.
DenseLayer_set_tile_CountsIfHidden(index, tile) ==
    /\ kind = "Dense"
    /\ IF index < Len(dense_tiles)
       THEN /\ tile_count < MaxCount
            /\ tile_count' = IF is_hidden(dense_tiles[index + 1])
                             THEN tile_count + 1 ELSE tile_count
            /\ dense_tiles' = [dense_tiles EXCEPT ![index + 1] = tile]
            /\ Record(Call("set_tile", index, tile, NoDimension, NoRet, "none"))
       ELSE /\ UNCHANGED <<dense_tiles, tile_count>>
            /\ Record(Call("set_tile", index, tile, NoDimension, NoRet, "warn"))
    /\ UNCHANGED <<kind, sparse_tiles>>

\* Mutant of DenseLayer_set_tile: a tile set past the end is pushed.
DenseLayer_set_tile_Grows(index, tile) ==
    /\ kind = "Dense"
    /\ tile_count < MaxCount
    /\ tile_count' = tile_count + 1
    /\ dense_tiles' = IF index < Len(dense_tiles)
                      THEN [dense_tiles EXCEPT ![index + 1] = tile]
                      ELSE Append(dense_tiles, tile)
    /\ Record(Call("set_tile", index, tile, NoDimension, NoRet, "none"))
    /\ UNCHANGED <<kind, sparse_tiles>>

DenseLayer_set_tile(index, tile) ==
    /\ kind = "Dense"
    /\ IF index < Len(dense_tiles)
       THEN /\ tile_count < MaxCount
            /\ tile_count' = tile_count + 1
            /\ dense_tiles' = [dense_tiles EXCEPT ![index + 1] = tile]
            /\ Record(Call("set_tile", index, tile, NoDimension, NoRet, "none"))
       ELSE /\ UNCHANGED <<dense_tiles, tile_count>>
            /\ Record(Call("set_tile", index, tile, NoDimension, NoRet, "warn"))
    /\ UNCHANGED <<kind, sparse_tiles>>

\* Mutant of DenseLayer_remove_tile: the element is taken out of the Vec
\* instead of being hidden.
DenseLayer_remove_tile_Deletes(index) ==
    /\ kind = "Dense"
    /\ IF index < Len(dense_tiles) /\ tile_count # 0
       THEN /\ tile_count' = tile_count - 1
            /\ dense_tiles' = [j \in 1..(Len(dense_tiles) - 1) |->
                                 IF j <= index THEN dense_tiles[j]
                                 ELSE dense_tiles[j + 1]]
       ELSE UNCHANGED <<dense_tiles, tile_count>>
    /\ Record(Call("remove_tile", index, NoTile, NoDimension, NoRet, "none"))
    /\ UNCHANGED <<kind, sparse_tiles>>

DenseLayer_remove_tile(index) ==
    /\ kind = "Dense"
    /\ IF index < Len(dense_tiles) /\ tile_count # 0
       THEN /\ tile_count' = tile_count - 1
            /\ dense_tiles' =
                 [dense_tiles EXCEPT ![index + 1] = hide(dense_tiles[index + 1])]
       ELSE UNCHANGED <<dense_tiles, tile_count>>
    /\ Record(Call("remove_tile", index, NoTile, NoDimension, NoRet, "none"))
    /\ UNCHANGED <<kind, sparse_tiles>>

\* Mutant of DenseGet: the tile is returned whether hidden or not.
DenseGet_NoFilter(tiles, index) ==
    IF index < Len(tiles) THEN Some(tiles[index + 1]) ELSE None

\* The value DenseLayer::get_tile and get_tile_mut return.
DenseGet(tiles, index) ==
    IF index < Len(tiles)
    THEN IF is_hidden(tiles[index + 1]) THEN None ELSE Some(tiles[index + 1])
    ELSE None

DenseLayer_get_tile(index) ==
    /\ kind = "Dense"
    /\ Record(Call("get_tile", index, NoTile, NoDimension,
                   RetTile(DenseGet(dense_tiles, index)), "none"))
    /\ UNCHANGED <<kind, dense_tiles, tile_count, sparse_tiles>>

DenseLayer_get_tile_mut(index) ==
    /\ kind = "Dense"
    /\ Record(Call("get_tile_mut", index, NoTile, NoDimension,
                   RetTile(DenseGet(dense_tiles, index)), "none"))
    /\ UNCHANGED <<kind, dense_tiles, tile_count, sparse_tiles>>

\* Mutant of DenseIndicesFrom: every index is pushed, hidden or not.
DenseIndicesFrom_All(tiles, index) == [j \in 1..Len(tiles) |-> index + j - 1]

\* The loop of DenseLayer::get_tile_indices over the tiles not yet visited,
\* `index` being the enumerate() counter of the first of them.
RECURSIVE DenseIndicesFrom(_, _)
DenseIndicesFrom(tiles, index) ==
    IF tiles = <<>> THEN <<>>
    ELSE IF ~is_hidden(Head(tiles))
         THEN <<index>> \o DenseIndicesFrom(Tail(tiles), index + 1)
         ELSE DenseIndicesFrom(Tail(tiles), index + 1)

DenseLayer_get_tile_indices ==
    /\ kind = "Dense"
    /\ Record(Call("get_tile_indices", NoIndex, NoTile, NoDimension,
                   RetIndices(DenseIndicesFrom(dense_tiles, 0)), "none"))
    /\ UNCHANGED <<kind, dense_tiles, tile_count, sparse_tiles>>

\* Mutant of DenseLayer_clear: the count is reset with the tiles.
DenseLayer_clear_ResetsCount ==
    /\ kind = "Dense"
    /\ dense_tiles' = <<>>
    /\ tile_count' = 0
    /\ Record(Call("clear", NoIndex, NoTile, NoDimension, NoRet, "none"))
    /\ UNCHANGED <<kind, sparse_tiles>>

DenseLayer_clear ==
    /\ kind = "Dense"
    /\ dense_tiles' = <<>>
    /\ Record(Call("clear", NoIndex, NoTile, NoDimension, NoRet, "none"))
    /\ UNCHANGED <<kind, tile_count, sparse_tiles>>

DenseLayer_tiles_to_attributes(dimension) ==
    /\ kind = "Dense"
    /\ Record(Call("tiles_to_attributes", NoIndex, NoTile, dimension,
                   RetAttributes(dense_tiles_to_attributes(dense_tiles)), "none"))
    /\ UNCHANGED <<kind, dense_tiles, tile_count, sparse_tiles>>

----------------------------------------------------------------------------
(* impl Layer for SparseLayer                                              *)

\* HashMap::remove
MapRemove(tiles, index) == [k \in DOMAIN tiles \ {index} |-> tiles[k]]

\* HashMap::insert
MapInsert(tiles, index, tile) ==
    [k \in DOMAIN tiles \cup {index} |-> IF k = index THEN tile ELSE tiles[k]]

\* Mutant of SparseLayer_set_tile: a hidden tile is removed and not stored.
SparseLayer_set_tile_DropsHidden(index, tile) ==
    /\ kind = "Sparse"
    /\ sparse_tiles' =
         IF is_hidden(tile)
         THEN MapRemove(sparse_tiles, index)
         ELSE MapInsert(sparse_tiles, index, tile)
    /\ Record(Call("set_tile", index, tile, NoDimension, NoRet, "none"))
    /\ UNCHANGED <<kind, dense_tiles, tile_count>>

SparseLayer_set_tile(index, tile) ==
    /\ kind = "Sparse"
    /\ sparse_tiles' =
         IF is_hidden(tile)
         THEN MapInsert(MapRemove(sparse_tiles, index), index, tile)
         ELSE MapInsert(sparse_tiles, index, tile)
    /\ Record(Call("set_tile", index, tile, NoDimension, NoRet, "none"))
    /\ UNCHANGED <<kind, dense_tiles, tile_count>>

\* Mutant of SparseLayer_remove_tile: the whole map is emptied.
SparseLayer_remove_tile_Clears(index) ==
    /\ kind = "Sparse"
    /\ sparse_tiles' = EmptyMap
    /\ Record(Call("remove_tile", index, NoTile, NoDimension, NoRet, "none"))
    /\ UNCHANGED <<kind, dense_tiles, tile_count>>

SparseLayer_remove_tile(index) ==
    /\ kind = "Sparse"
    /\ sparse_tiles' = MapRemove(sparse_tiles, index)
    /\ Record(Call("remove_tile", index, NoTile, NoDimension, NoRet, "none"))
    /\ UNCHANGED <<kind, dense_tiles, tile_count>>

\* The value SparseLayer::get_tile and get_tile_mut return.
SparseGet(tiles, index) ==
    IF index \in DOMAIN tiles THEN Some(tiles[index]) ELSE None

SparseLayer_get_tile(index) ==
    /\ kind = "Sparse"
    /\ Record(Call("get_tile", index, NoTile, NoDimension,
                   RetTile(SparseGet(sparse_tiles, index)), "none"))
    /\ UNCHANGED <<kind, dense_tiles, tile_count, sparse_tiles>>

SparseLayer_get_tile_mut(index) ==
    /\ kind = "Sparse"
    /\ Record(Call("get_tile_mut", index, NoTile, NoDimension,
                   RetTile(SparseGet(sparse_tiles, index)), "none"))
    /\ UNCHANGED <<kind, dense_tiles, tile_count, sparse_tiles>>

\* The keys are pushed in the iteration order of the HashMap, which is any.
SparseLayer_get_tile_indices ==
    /\ kind = "Sparse"
    /\ \E indices \in Orders(DOMAIN sparse_tiles) :
         Record(Call("get_tile_indices", NoIndex, NoTile, NoDimension,
                     RetIndices(indices), "none"))
    /\ UNCHANGED <<kind, dense_tiles, tile_count, sparse_tiles>>

SparseLayer_clear ==
    /\ kind = "Sparse"
    /\ sparse_tiles' = EmptyMap
    /\ Record(Call("clear", NoIndex, NoTile, NoDimension, NoRet, "none"))
    /\ UNCHANGED <<kind, dense_tiles, tile_count>>

\* `index * 4 + i` on a key that overflows usize panics in a build with
\* overflow checks and wraps in a build without them.
SparseLayer_tiles_to_attributes(dimension) ==
    /\ kind = "Sparse"
    /\ \/ /\ \E index \in DOMAIN sparse_tiles : Overflows(index)
          /\ Record(Call("tiles_to_attributes", NoIndex, NoTile, dimension,
                         NoRet, "panic"))
       \/ \E order \in Orders(DOMAIN sparse_tiles) :
             Record(Call("tiles_to_attributes", NoIndex, NoTile, dimension,
                         RetAttributes(sparse_tiles_to_attributes(
                             dimension, sparse_tiles, order)),
                         "none"))
    /\ UNCHANGED <<kind, dense_tiles, tile_count, sparse_tiles>>

----------------------------------------------------------------------------
(* LayerKindInner::as_ref / as_mut forward each call to the layer held:    *)
(* the Dense actions are enabled when kind = "Dense", the Sparse ones when *)
(* kind = "Sparse".                                                        *)

Next ==
    \/ \E index \in DenseIndices, tile \in InputTiles :
          DenseLayer_set_tile(index, tile)
    \/ \E index \in DenseIndices : DenseLayer_remove_tile(index)
    \/ \E index \in DenseIndices : DenseLayer_get_tile(index)
    \/ \E index \in DenseIndices : DenseLayer_get_tile_mut(index)
    \/ DenseLayer_get_tile_indices
    \/ DenseLayer_clear
    \/ \E dimension \in Dimensions : DenseLayer_tiles_to_attributes(dimension)
    \/ \E index \in Keys, tile \in InputTiles :
          SparseLayer_set_tile(index, tile)
    \/ \E index \in Keys : SparseLayer_remove_tile(index)
    \/ \E index \in Keys : SparseLayer_get_tile(index)
    \/ \E index \in Keys : SparseLayer_get_tile_mut(index)
    \/ SparseLayer_get_tile_indices
    \/ SparseLayer_clear
    \/ \E dimension \in Dimensions : SparseLayer_tiles_to_attributes(dimension)

Spec == Init /\ [][Next]_vars

----------------------------------------------------------------------------
(* Two layers behind the Layer trait, driven by the same calls: a          *)
(* DenseLayer of hidden tiles (dense_tiles, tile_count) and a SparseLayer  *)
(* that starts empty (sparse_tiles).  kind = "Pair" marks these behaviours.*)

\* LayerKindInner::as_mut().set_tile(index, tile) on both layers, index in
\* bounds of the Vec.
Pair_set_tile(index, tile) ==
    /\ kind = "Pair"
    /\ tile_count < MaxCount
    /\ tile_count' = tile_count + 1
    /\ dense_tiles' = [dense_tiles EXCEPT ![index + 1] = tile]
    /\ sparse_tiles' =
         IF is_hidden(tile)
         THEN MapInsert(MapRemove(sparse_tiles, index), index, tile)
         ELSE MapInsert(sparse_tiles, index, tile)
    /\ Record(Call("set_tile", index, tile, NoDimension, NoRet, "none"))
    /\ UNCHANGED kind

\* LayerKindInner::as_mut().remove_tile(index) on both layers, index in
\* bounds of the Vec.
Pair_remove_tile(index) ==
    /\ kind = "Pair"
    /\ IF tile_count # 0
       THEN /\ tile_count' = tile_count - 1
            /\ dense_tiles' =
                 [dense_tiles EXCEPT ![index + 1] = hide(dense_tiles[index + 1])]
       ELSE UNCHANGED <<dense_tiles, tile_count>>
    /\ sparse_tiles' = MapRemove(sparse_tiles, index)
    /\ Record(Call("remove_tile", index, NoTile, NoDimension, NoRet, "none"))
    /\ UNCHANGED kind

\* DenseLayer::new with N >= 1 hidden tiles and SparseLayer::new with an
\* empty map.
InitPair ==
    /\ kind = "Pair"
    /\ \E n \in 1..MaxLen : dense_tiles \in [1..n -> HiddenTiles]
    /\ tile_count = 0
    /\ sparse_tiles = EmptyMap
    /\ last = Call("new", NoIndex, NoTile, NoDimension, NoRet, "none")
    /\ prev = Brief(last)

NextPair ==
    \/ \E index \in 0..(Len(dense_tiles) - 1), tile \in VisibleTiles :
          Pair_set_tile(index, tile)
    \/ \E index \in 0..(Len(dense_tiles) - 1) : Pair_remove_tile(index)

SpecPair == InitPair /\ [][NextPair]_vars

----------------------------------------------------------------------------
(* Properties.  Cell i of a Vec is element i + 1; slot p of a flattened    *)
(* buffer is element p + 1.                                                *)

Reads == {"get_tile", "get_tile_mut"}

Range(f) == {f[x] : x \in DOMAIN f}

\* The indices in bounds whose stored tile has a non-zero alpha.
VisibleCells(tiles) == {i \in 0..(Len(tiles) - 1) : tiles[i + 1].color[4] # 0}

\* C1: after DenseLayer::remove_tile(i) with i below the stored length the
\* tile at i is hidden: get_tile(i) is None and i is not among
\* get_tile_indices().
C1_RemoveHidesCell ==
    (kind = "Dense" /\ last.op = "remove_tile" /\ last.index < Len(dense_tiles))
        => /\ dense_tiles[last.index + 1].color[4] = 0
           /\ DenseGet(dense_tiles, last.index) = None
           /\ last.index \notin Range(DenseIndicesFrom(dense_tiles, 0))

\* C2: DenseLayer::set_tile(i, t) with i not below the stored length changes
\* neither the tile sequence nor tile_count; it only logs a warning.
C2_SetOutOfBoundsIsNoOp ==
    [][(kind = "Dense" /\ last'.op = "set_tile" /\ last'.index >= Len(dense_tiles))
          => /\ dense_tiles' = dense_tiles
             /\ tile_count' = tile_count
             /\ last'.log = "warn"]_vars

C2_Witness ==
    /\ kind = "Dense"
    /\ last.op = "set_tile"
    /\ last.index >= Len(dense_tiles)
    /\ Len(dense_tiles) > 0
    /\ tile_count > 0

\* C3: DenseLayer::get_tile(i) and get_tile_mut(i) return the tile stored at
\* i exactly when i is in bounds and that tile's alpha is not zero, and None
\* otherwise; read right after an in-bounds set_tile(i, t) they return t when
\* t is not hidden and None when t is hidden.
C3_DenseGetFiltersHidden ==
    [][kind = "Dense" =>
         /\ last'.op \in Reads =>
              last'.ret.tile = IF last'.index \in VisibleCells(dense_tiles')
                          THEN Some(dense_tiles'[last'.index + 1])
                          ELSE None
         /\ ( /\ last.op = "set_tile"
              /\ last.index < Len(dense_tiles)
              /\ last'.op \in Reads
              /\ last'.index = last.index )
              => last'.ret.tile = IF last.tile.color[4] = 0 THEN None
                                  ELSE Some(last.tile)
      ]_vars

C3_Witness ==
    /\ kind = "Dense"
    /\ prev.op = "set_tile"
    /\ last.op = "get_tile"
    /\ last.index = prev.index
    /\ last.ret.tile # None
    /\ \E i \in 0..(Len(dense_tiles) - 1) : dense_tiles[i + 1].color[4] = 0

C5_SparseDiscardsHidden ==
    (kind = "Sparse" /\ last.op = "set_tile" /\ last.tile.color[4] = 0)
        => /\ SparseGet(sparse_tiles, last.index) = None
           /\ last.index \notin DOMAIN sparse_tiles
           /\ \A d \in Dimensions :
                 {sparse_tiles_to_attributes(d, sparse_tiles, order) :
                      order \in Orders(DOMAIN sparse_tiles)}
                    = {sparse_tiles_to_attributes(
                           d, MapRemove(sparse_tiles, last.index), order) :
                       order \in Orders(DOMAIN sparse_tiles \ {last.index})}

\* C6: DenseLayer::get_tile_indices() returns exactly the indices in bounds
\* whose stored tile is not hidden, each once; called on a layer constructed
\* with all-hidden tiles it returns nothing, and called after set_tile(i, t)
\* with t visible and i in bounds it contains i.
C6_DenseIndicesAreVisibleCells ==
    [][kind = "Dense" =>
         /\ last'.op = "get_tile_indices" =>
              /\ Range(last'.ret.indices) = VisibleCells(dense_tiles')
              /\ Len(last'.ret.indices) = Cardinality(VisibleCells(dense_tiles'))
         /\ ( /\ last.op = "new"
              /\ \A j \in DOMAIN dense_tiles : dense_tiles[j].color[4] = 0
              /\ last'.op = "get_tile_indices" )
              => last'.ret.indices = <<>>
         /\ ( /\ last.op = "set_tile"
              /\ last.index < Len(dense_tiles)
              /\ last.tile.color[4] # 0
              /\ last'.op = "get_tile_indices" )
              => last.index \in Range(last'.ret.indices)
      ]_vars

C6_Witness ==
    /\ kind = "Dense"
    /\ prev.op = "set_tile"
    /\ last.op = "get_tile_indices"
    /\ prev.index \in Range(last.ret.indices)
    /\ \E i \in 0..(Len(dense_tiles) - 1) : i \notin Range(last.ret.indices)

\* C7: SparseLayer::remove_tile(i) deletes exactly key i: every other key
\* keeps its tile, an absent key leaves the map unchanged, a second
\* remove_tile(i) changes nothing more, and get_tile(i) afterwards is None.
C7_SparseRemoveDeletesKey ==
    [][kind = "Sparse" =>
         /\ last'.op = "remove_tile" =>
              /\ DOMAIN sparse_tiles' = DOMAIN sparse_tiles \ {last'.index}
              /\ \A k \in DOMAIN sparse_tiles' : sparse_tiles'[k] = sparse_tiles[k]
              /\ last'.index \notin DOMAIN sparse_tiles
                    => sparse_tiles' = sparse_tiles
              /\ (last.op = "remove_tile" /\ last.index = last'.index)
                    => sparse_tiles' = sparse_tiles
         /\ ( /\ last.op = "remove_tile"
              /\ last'.op \in Reads
              /\ last'.index = last.index )
              => last'.ret.tile = None
      ]_vars

C7_Witness ==
    /\ kind = "Sparse"
    /\ prev.op = "set_tile"
    /\ last.op = "remove_tile"
    /\ last.index = prev.index
    /\ last.index \notin DOMAIN sparse_tiles
    /\ DOMAIN sparse_tiles # {}

\* C8: on a DenseLayer, set_tile(i, t) with i in bounds immediately followed
\* by remove_tile(i) leaves get_tile(i) None and the length unchanged, and
\* the flattening still has the four slots 4i..4i+3 of cell i, holding t's
\* sprite index (as an f32) and t's colour with alpha 0.
C8_SetThenRemoveKeepsSlot ==
    [][( /\ kind = "Dense"
         /\ last.op = "set_tile"
         /\ last.index < Len(dense_tiles)
         /\ last'.op = "remove_tile"
         /\ last'.index = last.index )
          => LET i == last.index
                 t == last.tile
                 attributes == dense_tiles_to_attributes(dense_tiles')
             IN  /\ DenseGet(dense_tiles', i) = None
                 /\ Len(dense_tiles') = Len(dense_tiles)
                 /\ Len(attributes[1]) = 4 * Len(dense_tiles)
                 /\ Len(attributes[2]) = 4 * Len(dense_tiles)
                 /\ \A k \in 0..3 :
                       /\ attributes[1][4 * i + k + 1] = ToF32(t.index)
                       /\ attributes[2][4 * i + k + 1]
                             = <<t.color[1], t.color[2], t.color[3], 0>>
      ]_vars

C8_Witness ==
    /\ kind = "Dense"
    /\ prev.op = "set_tile"
    /\ last.op = "remove_tile"
    /\ last.index = prev.index
    /\ last.index < Len(dense_tiles)
    /\ dense_tiles[last.index + 1] = RawTile(BigIndex, <<1, 0, 0, 0>>)
    /\ Len(dense_tiles) > 1

\* C9: both buffers tiles_to_attributes returns have the same length, which
\* is 4 times the stored length for a DenseLayer and 4 * width * height for
\* a SparseLayer, whichever keys the map holds.  (A call that panics returns
\* no buffers.)
C9_FlattenLengths ==
    (last.op = "tiles_to_attributes" /\ last.log = "none") =>
        /\ Len(last.ret.attributes[1]) = Len(last.ret.attributes[2])
        /\ kind = "Dense" =>
              Len(last.ret.attributes[1]) = 4 * Len(dense_tiles)
        /\ kind = "Sparse" =>
              Len(last.ret.attributes[1]) = 4 * last.dimension[1] * last.dimension[2]

C9_Witness ==
    /\ kind = "Sparse"
    /\ last.op = "tiles_to_attributes"
    /\ last.log = "none"
    /\ last.dimension[1] * last.dimension[2] > 0
    /\ \E k \in DOMAIN sparse_tiles : k >= last.dimension[1] * last.dimension[2]
    /\ Cardinality(DOMAIN sparse_tiles) # last.dimension[1] * last.dimension[2]

\* C10: the flattening of a DenseLayer holds, in each of the four slots
\* 4i..4i+3 of every cell i in bounds, the sprite index (as an f32) and the
\* colour of the tile stored at i, hidden or not.
C10_DenseFlattenByPosition ==
    (kind = "Dense" /\ last.op = "tiles_to_attributes") =>
        /\ Len(last.ret.attributes[1]) = 4 * Len(dense_tiles)
        /\ Len(last.ret.attributes[2]) = 4 * Len(dense_tiles)
        /\ \A i \in 0..(Len(dense_tiles) - 1), k \in 0..3 :
              /\ last.ret.attributes[1][4 * i + k + 1]
                    = ToF32(dense_tiles[i + 1].index)
              /\ last.ret.attributes[2][4 * i + k + 1] = dense_tiles[i + 1].color

C10_Witness ==
    /\ kind = "Dense"
    /\ last.op = "tiles_to_attributes"
    /\ Len(dense_tiles) = 2
    /\ dense_tiles[1].color[4] = 0
    /\ dense_tiles[2].color[4] # 0
    /\ dense_tiles[1].index # dense_tiles[2].index

\* The area of the grid a flattening was asked for.
Area(dimension) == dimension[1] * dimension[2]

\* C11: the flattening of a SparseLayer holds, in the four slots 4i..4i+3 of
\* every stored key i below width * height, that tile's sprite index (as an
\* f32) and colour, hidden or not, and in every slot of a cell without a
\* stored key the index 0.0 and the colour (0, 0, 0, 0).
C11_SparseFlattenByKey ==
    (kind = "Sparse" /\ last.op = "tiles_to_attributes" /\ last.log = "none") =>
        LET area == Area(last.dimension)
            attributes == last.ret.attributes
        IN  /\ Len(attributes[1]) = 4 * area
            /\ Len(attributes[2]) = 4 * area
            /\ \A i \in 0..(area - 1), k \in 0..3 :
                  IF i \in DOMAIN sparse_tiles
                  THEN /\ attributes[1][4 * i + k + 1]
                             = ToF32(sparse_tiles[i].index)
                       /\ attributes[2][4 * i + k + 1] = sparse_tiles[i].color
                  ELSE /\ attributes[1][4 * i + k + 1] = 0
                       /\ attributes[2][4 * i + k + 1] = <<0, 0, 0, 0>>

\* C12: the flattening of a SparseLayer completes for every stored key,
\* also one for which i * 4 + k does not fit usize, and a map whose keys are
\* all at or above width * height flattens to the all-default buffers.
C12_OutOfGridDropped ==
    (kind = "Sparse" /\ last.op = "tiles_to_attributes") =>
        LET area == Area(last.dimension)
        IN  /\ last.log = "none"
            /\ (\A i \in DOMAIN sparse_tiles : i >= area) =>
                  last.ret.attributes
                     = <<Filled(0, 4 * area), Filled(<<0, 0, 0, 0>>, 4 * area)>>

\* C13: in every state of a DenseLayer, tile_count is 0 exactly when no
\* stored tile is visible, that is when get_tile_indices() is empty.
C13_CountZeroIffEmpty ==
    kind = "Dense" =>
        (tile_count = 0 <=> DenseIndicesFrom(dense_tiles, 0) = <<>>)

C15_DenseLengthKept ==
    [][kind = "Dense" =>
         /\ last'.op # "clear" => Len(dense_tiles') = Len(dense_tiles)
         /\ Len(dense_tiles') <= Len(dense_tiles)
      ]_vars

C15_Witness ==
    /\ kind = "Dense"
    /\ prev.op = "set_tile"
    /\ prev.index >= Len(dense_tiles)
    /\ last.op = "remove_tile"
    /\ Len(dense_tiles) = MaxLen

\* C16: a DenseLayer of N hidden tiles and an empty SparseLayer that receive
\* the same set_tile(i, visible tile) and remove_tile(i) calls with i < N
\* agree on get_tile(i) for every i < N and on the set of indices
\* get_tile_indices() returns.
C16_StrategiesAgree ==
    kind = "Pair" =>
        /\ \A i \in 0..(Len(dense_tiles) - 1) :
              DenseGet(dense_tiles, i) = SparseGet(sparse_tiles, i)
        /\ Range(DenseIndicesFrom(dense_tiles, 0)) = DOMAIN sparse_tiles

C19_DenseWriteFrame ==
    [][( /\ kind = "Dense"
         /\ last'.op \in {"set_tile", "remove_tile"}
         /\ last'.index < Len(dense_tiles) )
          => /\ Len(dense_tiles') = Len(dense_tiles)
             /\ \A j \in 0..(Len(dense_tiles) - 1) :
                   j # last'.index => dense_tiles'[j + 1] = dense_tiles[j + 1]
             /\ last'.op = "remove_tile" =>
                  LET old == dense_tiles[last'.index + 1]
                      new == dense_tiles'[last'.index + 1]
                  IN  /\ new.index = old.index
                      /\ \A c \in 1..3 : new.color[c] = old.color[c]
      ]_vars

C19_Witness ==
    /\ kind = "Dense"
    /\ last.op = "remove_tile"
    /\ last.index < Len(dense_tiles)
    /\ dense_tiles[last.index + 1] = RawTile(BigIndex, <<1, 0, 0, 0>>)
    /\ \E j \in 0..(Len(dense_tiles) - 1) :
          j # last.index /\ dense_tiles[j + 1].color[4] # 0

\* The slots k of cell i that exist in a buffer: those `get_mut(i * 4 + k)`
\* finds and the loop therefore writes.
WrittenSlots(buf, i) == {k \in 0..3 : 4 * i + k < Len(buf)}

\* C18: the flattening of a SparseLayer writes a stored key i for which
\* i * 4 + 3 fits usize to all four slots 4i..4i+3 of both buffers when
\* i < width * height and to none otherwise; the four slots of a written
\* cell hold one tile, which is tile i when no stored key wraps.
C18_AllOrNothing ==
    (kind = "Sparse" /\ last.op = "tiles_to_attributes" /\ last.log = "none") =>
        LET area == Area(last.dimension)
            attributes == last.ret.attributes
        IN  \A i \in DOMAIN sparse_tiles :
                ~Overflows(i) =>
                    /\ WrittenSlots(attributes[1], i)
                          = (IF i < area THEN 0..3 ELSE {})
                    /\ WrittenSlots(attributes[2], i)
                          = (IF i < area THEN 0..3 ELSE {})
                    /\ \A k \in WrittenSlots(attributes[1], i)
                               \cap WrittenSlots(attributes[2], i) :
                          /\ attributes[1][4 * i + k + 1] = attributes[1][4 * i + 1]
                          /\ attributes[2][4 * i + k + 1] = attributes[2][4 * i + 1]
                          /\ (\A j \in DOMAIN sparse_tiles : ~Overflows(j)) =>
                                /\ attributes[1][4 * i + k + 1]
                                      = ToF32(sparse_tiles[i].index)
                                /\ attributes[2][4 * i + k + 1]
                                      = sparse_tiles[i].color

C18_Witness ==
    /\ kind = "Sparse"
    /\ last.op = "tiles_to_attributes"
    /\ last.log = "none"
    /\ Area(last.dimension) > 0
    /\ \E i, j \in DOMAIN sparse_tiles :
          /\ i < Area(last.dimension)
          /\ j >= Area(last.dimension)
          /\ ~Overflows(j)
    /\ \E j \in DOMAIN sparse_tiles : Overflows(j)

============================================================================
